---- MODULE Spec2Model ----
(***************************************************************************)
(* The realtime relay session of src/realtime_server.py                    *)
(* (websocket_endpoint): one client connection, its inbound loop           *)
(* (receive_messages), the upstream-event handlers and the upstream        *)
(* session clients the session creates.                                   *)
(*                                                                         *)
(* The inbound loop is one asyncio task; pc is the await it is suspended   *)
(* at.  The handlers run in the upstream client's own task and interleave  *)
(* with the loop at those awaits; handle_response_done is itself suspended *)
(* in close(), and the loop may run before it resumes.                     *)
(* send_audio_messages, the session's second task, waits on audio_queue,   *)
(* which nothing ever puts to: it takes no step.                           *)
(*                                                                         *)
(* The upstream client is an external collaborator: connect and send_audio *)
(* may raise, close may raise (handle_response_done and the finally block  *)
(* catch it) and then leaves the connection as it was, a call on a client  *)
(* that is not connected may raise, and a client delivers response events  *)
(* from the response request until it is closed.                           *)
(***************************************************************************)
EXTENDS Integers, Sequences, FiniteSets, TLC

\* ---------------------------------------------------------------- bounds
MaxInbound == 4     \* messages the client sends (frames and commands)
MaxEvents == 3      \* events the upstream clients deliver
MaxPending == 2     \* sends outstanding when the stop handler is exercised alone
MaxTime == 2        \* distinct last-edited stamps a page takes
MaxChecks == 3      \* executions of _monitor_pages (stats["total_checks"])

\* `client = None`
NoClient == 0

\* Every start_recording constructs one OpenAIRealtimeAudioTextClient; the
\* k-th start constructs client k.
Clients == 1..MaxInbound

\* Contents of a response.text.delta event: a letter, a blank.
DeltaTexts == {<<"a">>, <<" ">>}

VARIABLES
    pc,                         \* where receive_messages is suspended
    client,                     \* the nonlocal `client`
    upstream,                   \* each constructed client's connection state
    openai_ready,               \* asyncio.Event: readinessGate
    recording_stopped,          \* asyncio.Event: completionGate
    all_audio_sent,             \* asyncio.Event: drainGate
    pending_audio_operations,   \* inFlight
    pending_audio_chunks,       \* backlog
    complete_transcript,        \* transcript (websocket_endpoint's variable)
    NOTION_AUTO_CREATE,         \* module constant read from the environment
    outbox,                     \* frames sent to the client, in order
    upstreamLog,                \* calls made on upstream clients, in order
    inbound,                    \* messages receive_messages has read, in order
    sendFailures,               \* frames whose send_audio raised (logged)
    handoffs,                   \* create_notion_note_from_transcript tasks created
    turn,                       \* start_recording commands handled so far
    sinceStart,                 \* deltas delivered since the last start_recording
    lastConnect,                \* outcome of the latest initialize_openai
    logAtFail,                  \* Len(upstreamLog) when that attempt failed
    nEvents,                    \* upstream events delivered so far
    closing,                    \* client whose close() handle_response_done awaits
    peerGone,                   \* the disconnect is what receive() returns next
    timedOut,                   \* a stop's wait on all_audio_sent has timed out
    peer,                       \* the locals of a second, concurrent websocket_endpoint call
    lastEvent,                  \* the error or response.created event delivered last, and its number
    audio_data,                 \* the bytes of the binary frame handed to process_audio_chunk
    processed_audio,            \* what each call of process_audio_chunk on them returned
    text,                       \* the argument of count_words
    total_words,                \* what count_words returned for it
    audio_send_lock,            \* asyncio.Lock: locked()
    monitor                     \* the page monitor: state_manager.page_states, the checks in progress

vars == <<pc, client, upstream, openai_ready, recording_stopped, all_audio_sent,
          pending_audio_operations, pending_audio_chunks, complete_transcript,
          NOTION_AUTO_CREATE, outbox, upstreamLog, inbound, sendFailures,
          handoffs, turn, sinceStart, lastConnect, logAtFail, nEvents, closing,
          peerGone, timedOut, peer, lastEvent, audio_data, processed_audio,
          text, total_words, audio_send_lock, monitor>>

\* ---------------------------------------------------------------- frames
Status(s) == [type |-> "status", status |-> s]
Text(content, isNew) == [type |-> "text", content |-> content, isNewResponse |-> isNew]
Error(content) == [type |-> "error", content |-> content]

Call(op, c, f) == [op |-> op, c |-> c, f |-> f]

AudioMsg(f) == [type |-> "audio", f |-> f]
Command(t) == [type |-> t, f |-> 0]

\* Number of entries of a sequence that satisfy a test.
RECURSIVE CountType(_, _)
CountType(s, t) ==
    IF s = <<>> THEN 0
    ELSE (IF Head(s).type = t THEN 1 ELSE 0) + CountType(Tail(s), t)

nFrames == CountType(inbound, "audio")

Live(c) == upstream[c] \in {"live", "responding"}

\* ---------------------------------------------------------------- Init
\* Pages of the Notion database and their last-edited stamps.  A stamp is
\* compared for equality only; NoTime is a key missing from a dict (None from
\* dict.get) or a page that does not exist, LocalNow the local-clock string
\* datetime.now().isoformat() that manual_update_page stores, which no stamp
\* of the database equals.
PageIds == {"p1", "p2"}
NoTime == 0
LocalNow == -1
Times == 1..MaxTime
Stamps == {NoTime} \cup Times

\* The three callers of _monitor_pages: the initial check of start(), the
\* scheduled interval job, and the webhook without a page_id.
Slots == {"start", "job", "webhook"}

\* No check of this caller has begun.
IdleCheck == [pc |-> "idle", found |-> {}, todo |-> {}, updated |-> 0]

\* The page monitor before start(): StateManager.__init__ (page_states = {}),
\* the scheduler not started, no check counted, no check in progress;
\* database is what Notion holds.  What notion_state.json holds is an input of
\* start(); what save_state writes to it is read by no later step.
MonitorInit ==
    [page_states |-> [p \in PageIds |-> NoTime],
     database |-> [p \in PageIds |-> NoTime],
     is_running |-> FALSE,
     serving |-> FALSE,
     total_checks |-> 0,
     check |-> [c \in Slots |-> IdleCheck]]

\* count_words has not returned yet.
NotCounted == -1

\* No error or response.created event has been delivered yet.
NoEvent == [event |-> [type |-> "none", has |-> FALSE, message |-> ""], n |-> 0]

\* A second call of websocket_endpoint (lines 178-204): the call binds its own
\* client, readiness event and backlog; client is the state of its connection.
PeerInit ==
    [pc |-> "recv", client |-> "none", openai_ready |-> FALSE,
     pending_audio_chunks |-> <<>>]

Init ==
    /\ pc = "recv"
    /\ client = NoClient
    /\ upstream = [c \in Clients |-> "absent"]
    /\ openai_ready = FALSE
    /\ recording_stopped = FALSE
    /\ all_audio_sent = TRUE
    /\ pending_audio_operations = 0
    /\ pending_audio_chunks = <<>>
    /\ complete_transcript = <<>>
    /\ NOTION_AUTO_CREATE = TRUE       \* os.getenv("NOTION_AUTO_CREATE", "true")
    /\ outbox = <<Status("idle")>>
    /\ upstreamLog = <<>>
    /\ inbound = <<>>
    /\ sendFailures = {}
    /\ handoffs = <<>>
    /\ turn = 0
    /\ sinceStart = <<>>
    /\ lastConnect = "none"
    /\ logAtFail = 0
    /\ nEvents = 0
    /\ closing = NoClient
    /\ peerGone = FALSE
    /\ timedOut = FALSE
    /\ peer = PeerInit
    /\ lastEvent = NoEvent
    /\ audio_data = <<>>
    /\ processed_audio = <<>>
    /\ text = <<>>
    /\ total_words = NotCounted
    /\ audio_send_lock = FALSE
    /\ monitor = MonitorInit

\* ---------------------------------------------------------------- helpers
\* Variant: strip() leaves the string as it is.
Strip_Nothing(s) == s

\* str.strip() on the transcript: leading and trailing blanks removed.
RECURSIVE LStrip(_)
LStrip(s) == IF s # <<>> /\ Head(s) = " " THEN LStrip(Tail(s)) ELSE s

RECURSIVE RStrip(_)
RStrip(s) ==
    IF s # <<>> /\ s[Len(s)] = " " THEN RStrip(SubSeq(s, 1, Len(s) - 1)) ELSE s

Strip(s) == RStrip(LStrip(s))

\* Variant: the readiness test always takes the buffering branch.
GateClosed_Always(ready) == TRUE

\* Variant: the readiness test never takes the buffering branch.
GateClosed_Never(ready) == FALSE

\* `if not openai_ready.is_set()`: the frame is buffered
GateClosed(ready) == ~ready

\* Variant: the counter is incremented and the event is left as it is.
TakeSlot_NoClear(p, e) == [pending |-> p + 1, sent |-> e]

\* `async with audio_send_lock: pending_audio_operations += 1; all_audio_sent.clear()`
TakeSlot(p, e) == [pending |-> p + 1, sent |-> FALSE]

\* Variant: the finally block sets the event without decrementing the counter.
ReleaseSlot_NoDecrement(p, e) == [pending |-> p, sent |-> TRUE]

\* Variant: the finally block decrements but never sets the event.
ReleaseSlot_NoSet(p, e) == [pending |-> p - 1, sent |-> e]

\* the finally block of a send: decrement, and set the event at zero
ReleaseSlot(p, e) == [pending |-> p - 1, sent |-> (p - 1 = 0) \/ e]

\* Variant: the wait runs into its timeout whether or not the event is set.
DrainWait_AlwaysTimeout(p, e) == [pending |-> 0, sent |-> TRUE, timeout |-> TRUE]

\* Variant: the timeout is logged and the counter and the event are left alone.
DrainWait_NoReset(p, e) == [pending |-> p, sent |-> e, timeout |-> ~e]

\* stop_recording's wait on all_audio_sent: it returns at once when the event
\* is set; otherwise the 5 s timeout fires and the counter is force-reset.
DrainWait(p, e) ==
    IF e THEN [pending |-> p, sent |-> e, timeout |-> FALSE]
    ELSE [pending |-> 0, sent |-> TRUE, timeout |-> TRUE]

\* list.clear()
ClearChunks(chunks) == <<>>

\* Variant: the buffered chunks are sent and the list is never emptied.
FlushBacklog_NoClear(chunks, cl) == [sent |-> chunks, left |-> chunks]

\* After a successful initialize_openai: pending_audio_chunks.clear(), then
\* the loop that sends what the list (now) holds, then clear() again.
FlushBacklog(chunks, cl) ==
    LET afterClear == ClearChunks(chunks)
    IN  IF afterClear # <<>> /\ cl # NoClient
        THEN [sent |-> afterClear, left |-> ClearChunks(afterClear)]
        ELSE [sent |-> <<>>, left |-> afterClear]

\* client.close() on client c: a connected client is closed unless close raises.
AfterClose(up, c, ok) ==
    IF c # NoClient /\ up[c] \in {"live", "responding"} /\ ok
    THEN [up EXCEPT ![c] = "closed"]
    ELSE up

\* The finally block of receive_messages: `if client: await client.close()`;
\* an exception of close is logged.  client and the events are left as they are.
CleanupLog(log) == IF client # NoClient THEN Append(log, Call("close", client, 0)) ELSE log
CleanupUpstream(up, ok) == AfterClose(up, client, ok)

\* The frame of the send_audio call the loop is awaiting.
RECURSIVE LastSent(_)
LastSent(log) ==
    IF log = <<>> THEN 0
    ELSE IF log[Len(log)].op = "sendAudio" THEN log[Len(log)].f
    ELSE LastSent(SubSeq(log, 1, Len(log) - 1))

SendCalls(frames, c) == [i \in 1..Len(frames) |-> Call("sendAudio", c, frames[i])]

\* ---------------------------------------------------------------- queued sender
\* audio_queue = asyncio.Queue(): created empty; no statement of the program
\* puts to it.
audio_queue == <<>>

\* send_audio_messages suspends in `await audio_queue.get()` at once; it leaves
\* its loop only after get() has returned, which takes an item in the queue.
SendTaskEnded == audio_queue # <<>>

\* `await asyncio.gather(receive_task, send_task)` returns, and with it the
\* connection handler, when both tasks have ended.
HandlerReturned == pc = "exited" /\ SendTaskEnded

\* ---------------------------------------------------------------- inbound loop
\* A binary frame is read (lines 326-352).
ReceiveAudio ==
    /\ pc = "recv"
    /\ ~peerGone
    /\ Len(inbound) < MaxInbound
    /\ LET f == nFrames + 1
           slot == TakeSlot(pending_audio_operations, all_audio_sent)
       IN  /\ inbound' = Append(inbound, AudioMsg(f))
           /\ IF GateClosed(openai_ready)
              THEN /\ pending_audio_chunks' = Append(pending_audio_chunks, f)
                   /\ UNCHANGED <<pc, pending_audio_operations, all_audio_sent, upstreamLog>>
              ELSE IF client # NoClient
              THEN /\ pending_audio_operations' = slot.pending
                   /\ all_audio_sent' = slot.sent
                   /\ upstreamLog' = Append(upstreamLog, Call("sendAudio", client, f))
                   /\ pc' = "sending"
                   /\ UNCHANGED pending_audio_chunks
              ELSE UNCHANGED <<pc, pending_audio_operations, all_audio_sent,
                               upstreamLog, pending_audio_chunks>>
    /\ UNCHANGED <<client, upstream, openai_ready, recording_stopped, complete_transcript,
                   NOTION_AUTO_CREATE, outbox, sendFailures, handoffs, turn, sinceStart,
                   lastConnect, logAtFail, nEvents, closing, peerGone, timedOut>>
    /\ UNCHANGED <<peer, lastEvent, audio_data, processed_audio, text, total_words,
                   audio_send_lock, monitor>>

\* client.send_audio returns (lines 339-350, 424-435): on success the status
\* frame is sent; the finally block releases the slot either way; an exception
\* reaches `except Exception`, is logged, and the loop breaks.
SendAudioReturn(ok, closeOk) ==
    /\ pc = "sending"
    /\ LET slot == ReleaseSlot(pending_audio_operations, all_audio_sent)
       IN  /\ pending_audio_operations' = slot.pending
           /\ all_audio_sent' = slot.sent
    /\ IF ok
       THEN /\ outbox' = Append(outbox, Status("connected"))
            /\ pc' = "recv"
            /\ UNCHANGED <<sendFailures, upstreamLog, upstream>>
       ELSE /\ sendFailures' = sendFailures \cup {LastSent(upstreamLog)}
            /\ upstreamLog' = CleanupLog(upstreamLog)
            /\ upstream' = CleanupUpstream(upstream, closeOk)
            /\ pc' = "exited"
            /\ UNCHANGED outbox
    /\ UNCHANGED <<client, openai_ready, recording_stopped, pending_audio_chunks,
                   complete_transcript, NOTION_AUTO_CREATE, inbound, handoffs, turn,
                   sinceStart, lastConnect, logAtFail, nEvents,
                   closing, peerGone, timedOut>>
    /\ UNCHANGED <<peer, lastEvent, audio_data, processed_audio, text, total_words,
                   audio_send_lock, monitor>>

\* {"type": "start_recording"} is read (lines 357-367, 206-213): the assignment
\* to complete_transcript binds a local of receive_messages, which declares only
\* client and pending_audio_operations nonlocal; the status frame is sent and
\* initialize_openai clears the event, constructs a client and awaits connect.
StartRecording ==
    /\ pc = "recv"
    /\ ~peerGone
    /\ Len(inbound) < MaxInbound
    /\ inbound' = Append(inbound, Command("start_recording"))
    /\ turn' = turn + 1
    /\ sinceStart' = <<>>
    /\ outbox' = Append(outbox, Status("connecting"))
    /\ openai_ready' = FALSE
    /\ client' = turn + 1
    /\ upstream' = [upstream EXCEPT ![turn + 1] = "connecting"]
    /\ upstreamLog' = Append(upstreamLog, Call("connect", turn + 1, 0))
    /\ pc' = "connecting"
    /\ UNCHANGED <<recording_stopped, all_audio_sent, pending_audio_operations,
                   pending_audio_chunks, complete_transcript, NOTION_AUTO_CREATE,
                   sendFailures, handoffs, lastConnect, logAtFail, nEvents,
                   closing, peerGone, timedOut>>
    /\ UNCHANGED <<peer, lastEvent, audio_data, processed_audio, text, total_words,
                   audio_send_lock, monitor>>

\* client.connect() returns (lines 213-245, 367-388).  The handlers are registered
\* through the nonlocal `client`, which a response.done handled meanwhile may have
\* set to None: that raises inside the try and takes the failure path.
ConnectReturn(ok) ==
    /\ pc = "connecting"
    /\ LET c == turn
           up == IF upstream[c] = "connecting"
                 THEN [upstream EXCEPT ![c] = IF ok THEN "live" ELSE "failed"]
                 ELSE upstream
           flush == FlushBacklog(pending_audio_chunks, client)
       IN  /\ upstream' = up
           /\ IF ok /\ client # NoClient
              THEN /\ openai_ready' = TRUE
                   /\ outbox' = Append(outbox, Status("connected"))
                   /\ recording_stopped' = FALSE
                   /\ pending_audio_chunks' = flush.left
                   /\ upstreamLog' = Append(upstreamLog, Call("register", client, 0))
                                        \o SendCalls(flush.sent, client)
                   /\ lastConnect' = "ok"
                   /\ UNCHANGED logAtFail
              ELSE /\ openai_ready' = FALSE
                   /\ outbox' = Append(outbox, Error("Failed to initialize OpenAI connection"))
                   /\ lastConnect' = "failed"
                   /\ logAtFail' = Len(upstreamLog)
                   /\ UNCHANGED <<recording_stopped, pending_audio_chunks, upstreamLog>>
    /\ pc' = "recv"
    /\ UNCHANGED <<client, all_audio_sent, pending_audio_operations, complete_transcript,
                   NOTION_AUTO_CREATE, inbound, sendFailures, handoffs, turn, sinceStart,
                   nEvents, closing, peerGone, timedOut>>
    /\ UNCHANGED <<peer, lastEvent, audio_data, processed_audio, text, total_words,
                   audio_send_lock, monitor>>

\* Variant: the stop branch does not test `client`.
StopGuard_Always(c) == TRUE

\* `if client:` of the stop branch (line 391)
StopGuard(c) == c # NoClient

\* {"type": "stop_recording"} is read (lines 390-408): nothing without a client;
\* with one, the drain wait and then the 0.1 s sleep.
StopRecording ==
    /\ pc = "recv"
    /\ ~peerGone
    /\ Len(inbound) < MaxInbound
    /\ inbound' = Append(inbound, Command("stop_recording"))
    /\ IF StopGuard(client)
       THEN LET drain == DrainWait(pending_audio_operations, all_audio_sent)
            IN  /\ pending_audio_operations' = drain.pending
                /\ all_audio_sent' = drain.sent
                /\ timedOut' = (timedOut \/ drain.timeout)
                /\ pc' = "settle"
       ELSE UNCHANGED <<pending_audio_operations, all_audio_sent, timedOut, pc>>
    /\ UNCHANGED <<client, upstream, openai_ready, recording_stopped, pending_audio_chunks,
                   complete_transcript, NOTION_AUTO_CREATE, outbox, upstreamLog,
                   sendFailures, handoffs, turn, sinceStart, lastConnect, logAtFail,
                   nEvents, closing, peerGone>>
    /\ UNCHANGED <<peer, lastEvent, audio_data, processed_audio, text, total_words,
                   audio_send_lock, monitor>>

\* A call on the upstream client made after the sleep.  `client` may be None by
\* now (AttributeError); a client that is not connected may raise.  Either
\* exception ends the loop through `except Exception` and the finally block.
UpstreamCall(op, next, ok, closeOk) ==
    IF client = NoClient
    THEN /\ pc' = "exited"
         /\ UNCHANGED <<upstreamLog, upstream>>
    ELSE IF ok \/ Live(client)
    THEN /\ upstreamLog' = Append(upstreamLog, Call(op, client, 0))
         /\ upstream' = IF op = "response" /\ Live(client)
                        THEN [upstream EXCEPT ![client] = "responding"]
                        ELSE upstream
         /\ pc' = next
    ELSE /\ upstreamLog' = CleanupLog(Append(upstreamLog, Call(op, client, 0)))
         /\ upstream' = CleanupUpstream(upstream, closeOk)
         /\ pc' = "exited"

\* await client.commit_audio() (line 411)
CommitAudio(ok, closeOk) ==
    /\ pc = "settle"
    /\ UpstreamCall("commit", "committed", ok, closeOk)
    /\ UNCHANGED <<client, openai_ready, recording_stopped, all_audio_sent,
                   pending_audio_operations, pending_audio_chunks, complete_transcript,
                   NOTION_AUTO_CREATE, outbox, inbound, sendFailures, handoffs, turn,
                   sinceStart, lastConnect, logAtFail, nEvents,
                   closing, peerGone, timedOut>>
    /\ UNCHANGED <<peer, lastEvent, audio_data, processed_audio, text, total_words,
                   audio_send_lock, monitor>>

\* await client.start_response(PROMPTS['paraphrase-gpt-realtime']) (line 412)
StartResponse(ok, closeOk) ==
    /\ pc = "committed"
    /\ UpstreamCall("response", "await_done", ok, closeOk)
    /\ UNCHANGED <<client, openai_ready, recording_stopped, all_audio_sent,
                   pending_audio_operations, pending_audio_chunks, complete_transcript,
                   NOTION_AUTO_CREATE, outbox, inbound, sendFailures, handoffs, turn,
                   sinceStart, lastConnect, logAtFail, nEvents,
                   closing, peerGone, timedOut>>
    /\ UNCHANGED <<peer, lastEvent, audio_data, processed_audio, text, total_words,
                   audio_send_lock, monitor>>

\* await recording_stopped.wait() returns (lines 413-419)
AwaitDone ==
    /\ pc = "await_done"
    /\ recording_stopped
    /\ outbox' = Append(outbox, Status("connected"))
    /\ pc' = "recv"
    /\ UNCHANGED <<client, upstream, openai_ready, recording_stopped, all_audio_sent,
                   pending_audio_operations, pending_audio_chunks, complete_transcript,
                   NOTION_AUTO_CREATE, upstreamLog, inbound, sendFailures, handoffs,
                   turn, sinceStart, lastConnect, logAtFail, nEvents,
                   closing, peerGone, timedOut>>
    /\ UNCHANGED <<peer, lastEvent, audio_data, processed_audio, text, total_words,
                   audio_send_lock, monitor>>

\* The client goes away while the loop is in receive(): receive() delivers the
\* disconnect, the next iteration finds client_state DISCONNECTED, clears
\* openai_ready and breaks (lines 317-320, 428-435).
Disconnect(closeOk) ==
    /\ pc = "recv"
    /\ ~peerGone
    /\ Len(inbound) < MaxInbound
    /\ peerGone' = TRUE
    /\ inbound' = Append(inbound, Command("disconnect"))
    /\ openai_ready' = FALSE
    /\ upstreamLog' = CleanupLog(upstreamLog)
    /\ upstream' = CleanupUpstream(upstream, closeOk)
    /\ pc' = "exited"
    /\ UNCHANGED <<client, recording_stopped, all_audio_sent, pending_audio_operations,
                   pending_audio_chunks, complete_transcript, NOTION_AUTO_CREATE, outbox,
                   sendFailures, handoffs, turn, sinceStart, lastConnect, logAtFail,
                   nEvents, closing, timedOut>>
    /\ UNCHANGED <<peer, lastEvent, audio_data, processed_audio, text, total_words,
                   audio_send_lock, monitor>>

\* ---------------------------------------------------------------- upstream events
\* A client delivers response events once a response was requested on it, until
\* it is closed.  A handler is awaited by the client's receive loop, so the next
\* event is handled after the handler returned.

\* handle_text_delta (lines 248-265)
HandleTextDelta(c, d) ==
    /\ upstream[c] = "responding"
    /\ closing = NoClient
    /\ nEvents < MaxEvents
    /\ nEvents' = nEvents + 1
    /\ complete_transcript' = IF d # <<>> THEN complete_transcript \o d ELSE complete_transcript
    /\ sinceStart' = sinceStart \o d
    /\ outbox' = Append(outbox, Text(d, FALSE))
    /\ UNCHANGED <<pc, client, upstream, openai_ready, recording_stopped, all_audio_sent,
                   pending_audio_operations, pending_audio_chunks, NOTION_AUTO_CREATE,
                   upstreamLog, inbound, sendFailures, handoffs, turn, lastConnect,
                   logAtFail, closing, peerGone, timedOut>>
    /\ UNCHANGED <<peer, lastEvent, audio_data, processed_audio, text, total_words,
                   audio_send_lock, monitor>>

\* handle_response_done up to its await (lines 284-296): the event is set, the
\* hand-off task is created, and close() is called on the client held now.
HandleResponseDone(c) ==
    /\ upstream[c] = "responding"
    /\ closing = NoClient
    /\ nEvents < MaxEvents
    /\ nEvents' = nEvents + 1
    /\ recording_stopped' = TRUE
    /\ handoffs' = IF Strip(complete_transcript) # <<>> /\ NOTION_AUTO_CREATE
                   THEN Append(handoffs, [turn |-> turn, text |-> Strip(complete_transcript),
                                          st |-> "created"])
                   ELSE handoffs
    /\ IF client # NoClient
       THEN /\ upstreamLog' = Append(upstreamLog, Call("close", client, 0))
            /\ closing' = client
       ELSE UNCHANGED <<upstreamLog, closing>>
    /\ UNCHANGED <<pc, client, upstream, openai_ready, outbox, all_audio_sent,
                   pending_audio_operations, pending_audio_chunks, complete_transcript,
                   NOTION_AUTO_CREATE, inbound, sendFailures, turn, sinceStart,
                   lastConnect, logAtFail, peerGone, timedOut>>
    /\ UNCHANGED <<peer, lastEvent, audio_data, processed_audio, text, total_words,
                   audio_send_lock, monitor>>

\* That close() returns (lines 296-304).  The inbound loop, woken by the event,
\* may have run meanwhile.  On a normal return the nonlocal `client` is set to
\* None, the readiness event cleared and "idle" sent; an exception is logged.
CloseReturn(closeOk) ==
    /\ closing # NoClient
    /\ closing' = NoClient
    /\ upstream' = AfterClose(upstream, closing, closeOk)
    /\ IF closeOk
       THEN /\ client' = NoClient
            /\ openai_ready' = FALSE
            /\ outbox' = Append(outbox, Status("idle"))
       ELSE UNCHANGED <<client, openai_ready, outbox>>
    /\ UNCHANGED <<pc, recording_stopped, all_audio_sent, pending_audio_operations,
                   pending_audio_chunks, complete_transcript, NOTION_AUTO_CREATE,
                   upstreamLog, inbound, sendFailures, handoffs, turn, sinceStart,
                   lastConnect, logAtFail, nEvents, peerGone, timedOut>>
    /\ UNCHANGED <<peer, lastEvent, audio_data, processed_audio, text, total_words,
                   audio_send_lock, monitor>>

\* ---------------------------------------------------------------- specification
Next ==
    \/ ReceiveAudio
    \/ \E ok \in BOOLEAN, closeOk \in BOOLEAN : SendAudioReturn(ok, closeOk)
    \/ StartRecording
    \/ \E ok \in BOOLEAN : ConnectReturn(ok)
    \/ StopRecording
    \/ \E ok \in BOOLEAN, closeOk \in BOOLEAN : CommitAudio(ok, closeOk)
    \/ \E ok \in BOOLEAN, closeOk \in BOOLEAN : StartResponse(ok, closeOk)
    \/ AwaitDone
    \/ \E closeOk \in BOOLEAN : Disconnect(closeOk)
    \/ \E c \in Clients, d \in DeltaTexts : HandleTextDelta(c, d)
    \/ \E c \in Clients : HandleResponseDone(c)
    \/ \E closeOk \in BOOLEAN : CloseReturn(closeOk)

Spec == Init /\ [][Next]_vars

\* ---------------------------------------------------------------- malformed input
\* A text frame that is not valid JSON is read (lines 354-355, 424-435):
\* json.loads raises, `except Exception` logs and breaks, and the finally block
\* closes the client held.
MalformedFrame(closeOk) ==
    /\ pc = "recv"
    /\ ~peerGone
    /\ Len(inbound) < MaxInbound
    /\ inbound' = Append(inbound, Command("malformed"))
    /\ upstreamLog' = CleanupLog(upstreamLog)
    /\ upstream' = CleanupUpstream(upstream, closeOk)
    /\ pc' = "exited"
    /\ UNCHANGED <<client, openai_ready, recording_stopped, all_audio_sent,
                   pending_audio_operations, pending_audio_chunks, complete_transcript,
                   NOTION_AUTO_CREATE, outbox, sendFailures, handoffs, turn, sinceStart,
                   lastConnect, logAtFail, nEvents, closing, peerGone, timedOut>>
    /\ UNCHANGED <<peer, lastEvent, audio_data, processed_audio, text, total_words,
                   audio_send_lock, monitor>>

NextInbound ==
    \/ Next
    \/ \E closeOk \in BOOLEAN : MalformedFrame(closeOk)

SpecInbound == Init /\ [][NextInbound]_vars

\* ---------------------------------------------------------------- two sessions
\* Variant: `client` is one module-level name, so a cleanup closes whichever
\* connection is open.
CleanupScope_Global(up) ==
    [c \in DOMAIN up |-> IF up[c] \in {"live", "responding"} THEN "closed" ELSE up[c]]

\* What the finally block of one call does to the clients of another call
\* (lines 190, 428-435): `client` is a local of websocket_endpoint, so the
\* close reaches the call's own client and no other.
CleanupScope(up) == up

\* The second session reads a binary frame before its connection is ready
\* (lines 326-330): the chunk joins its own backlog.
PeerReceiveAudio ==
    /\ peer.pc = "recv"
    /\ GateClosed(peer.openai_ready)
    /\ Len(peer.pending_audio_chunks) < MaxPending
    /\ peer' = [peer EXCEPT !.pending_audio_chunks = Append(@, 1)]
    /\ UNCHANGED <<pc, client, upstream, openai_ready, recording_stopped, all_audio_sent,
                   pending_audio_operations, pending_audio_chunks, complete_transcript,
                   NOTION_AUTO_CREATE, outbox, upstreamLog, inbound, sendFailures,
                   handoffs, turn, sinceStart, lastConnect, logAtFail, nEvents, closing,
                   peerGone, timedOut, lastEvent, audio_data, processed_audio,
                   text, total_words, audio_send_lock, monitor>>

\* The second session handles start_recording (lines 357-388, 206-245): it
\* constructs its own client; a successful connect sets its own readiness event
\* and empties its own backlog, a failed one leaves both.
PeerStartRecording(ok) ==
    /\ peer.pc = "recv"
    /\ peer.client = "none"
    /\ peer' = IF ok
               THEN [peer EXCEPT !.client = "live", !.openai_ready = TRUE,
                                 !.pending_audio_chunks =
                                     FlushBacklog(peer.pending_audio_chunks, 1).left]
               ELSE [peer EXCEPT !.client = "failed", !.openai_ready = FALSE]
    /\ UNCHANGED <<pc, client, upstream, openai_ready, recording_stopped, all_audio_sent,
                   pending_audio_operations, pending_audio_chunks, complete_transcript,
                   NOTION_AUTO_CREATE, outbox, upstreamLog, inbound, sendFailures,
                   handoffs, turn, sinceStart, lastConnect, logAtFail, nEvents, closing,
                   peerGone, timedOut, lastEvent, audio_data, processed_audio,
                   text, total_words, audio_send_lock, monitor>>

\* An exception ends the second session's inbound loop (lines 424-435): break,
\* and the finally block closes the client that call holds.
PeerFails(closeOk) ==
    /\ peer.pc = "recv"
    /\ peer' = [peer EXCEPT !.pc = "exited",
                            !.client = IF @ = "live" /\ closeOk THEN "closed" ELSE @]
    /\ upstream' = CleanupScope(upstream)
    /\ UNCHANGED <<pc, client, openai_ready, recording_stopped, all_audio_sent,
                   pending_audio_operations, pending_audio_chunks, complete_transcript,
                   NOTION_AUTO_CREATE, outbox, upstreamLog, inbound, sendFailures,
                   handoffs, turn, sinceStart, lastConnect, logAtFail, nEvents, closing,
                   peerGone, timedOut, lastEvent, audio_data, processed_audio,
                   text, total_words, audio_send_lock, monitor>>

\* The frames the session reads in the specifications that add a second session
\* or further upstream events.
PairInbound == MaxInbound - 2

\* A step of the first session, a frame that ends its loop included.
OwnStep ==
    /\ Next \/ \E closeOk \in BOOLEAN : MalformedFrame(closeOk)
    /\ Len(inbound') <= PairInbound

NextPair ==
    \/ OwnStep
    \/ PeerReceiveAudio
    \/ \E ok \in BOOLEAN : PeerStartRecording(ok)
    \/ \E closeOk \in BOOLEAN : PeerFails(closeOk)

SpecPair == Init /\ [][NextPair]_vars

\* ---------------------------------------------------------------- error and response.created
\* The payloads of an upstream error event: data["error"]["message"] present
\* (empty or not) or absent.
ErrorEvents ==
    {[type |-> "error", has |-> TRUE, message |-> "quota exceeded"],
     [type |-> "error", has |-> TRUE, message |-> ""],
     [type |-> "error", has |-> FALSE, message |-> ""]}

CreatedEvent == [type |-> "response.created", has |-> FALSE, message |-> ""]

\* Variant: the frame carries a fixed text whatever the event says.
ErrorMessage_Fixed(data) == "Unknown error"

\* data.get("error", {}).get("message", "Unknown error")
ErrorMessage(data) == IF data.has THEN data.message ELSE "Unknown error"

\* Variant: the frame of a new response repeats the transcript so far.
CreatedFrame_Transcript(transcript) == Text(transcript, TRUE)

\* The frame handle_response_created sends: content "", isNewResponse true.
CreatedFrame(transcript) == Text(<<>>, TRUE)

\* register_handler has been called on client c (lines 217-230).
HasHandlers(c) == \E i \in DOMAIN upstreamLog : upstreamLog[i] = Call("register", c, 0)

\* handle_error (lines 275-282): the message is read from the event and sent to
\* the client as an error frame; nothing else of the session is touched.
HandleError(c, data) ==
    /\ upstream[c] \in {"live", "responding"}
    /\ HasHandlers(c)
    /\ closing = NoClient
    /\ nEvents < MaxEvents
    /\ nEvents' = nEvents + 1
    /\ lastEvent' = [event |-> data, n |-> nEvents + 1]
    /\ outbox' = Append(outbox, Error(ErrorMessage(data)))
    /\ UNCHANGED <<pc, client, upstream, openai_ready, recording_stopped, all_audio_sent,
                   pending_audio_operations, pending_audio_chunks, complete_transcript,
                   NOTION_AUTO_CREATE, upstreamLog, inbound, sendFailures, handoffs,
                   turn, sinceStart, lastConnect, logAtFail, closing, peerGone,
                   timedOut, peer, audio_data, processed_audio,
                   text, total_words, audio_send_lock, monitor>>

\* handle_response_created (lines 267-273)
HandleResponseCreated(c) ==
    /\ upstream[c] = "responding"
    /\ HasHandlers(c)
    /\ closing = NoClient
    /\ nEvents < MaxEvents
    /\ nEvents' = nEvents + 1
    /\ lastEvent' = [event |-> CreatedEvent, n |-> nEvents + 1]
    /\ outbox' = Append(outbox, CreatedFrame(complete_transcript))
    /\ UNCHANGED <<pc, client, upstream, openai_ready, recording_stopped, all_audio_sent,
                   pending_audio_operations, pending_audio_chunks, complete_transcript,
                   NOTION_AUTO_CREATE, upstreamLog, inbound, sendFailures, handoffs,
                   turn, sinceStart, lastConnect, logAtFail, closing, peerGone,
                   timedOut, peer, audio_data, processed_audio,
                   text, total_words, audio_send_lock, monitor>>

\* A step of the session other than these two events.
RelayedStep == Next /\ Len(inbound') <= PairInbound

NextEvents ==
    \/ RelayedStep
    \/ \E c \in Clients, data \in ErrorEvents : HandleError(c, data)
    \/ \E c \in Clients : HandleResponseCreated(c)

SpecEvents == Init /\ [][NextEvents]_vars

\* ---------------------------------------------------------------- AudioProcessor
target_sample_rate == 24000
source_sample_rate == 48000

\* int16 limits
MinSample == -32768
MaxSample == 32767

\* Byte values the frames are built from: with them a sample can be 0, close
\* to either limit, or exactly the most negative value.
ByteValues == {0, 127, 128}

\* The binary frames a session may be sent: every byte string up to MaxInbound bytes.
AudioInputs == UNION {[1..n -> ByteValues] : n \in 0..MaxInbound}

RECURSIVE Gcd(_, _)
Gcd(a, b) == IF b = 0 THEN a ELSE Gcd(b, a % b)

\* Integer division rounding toward zero, as astype(np.int16) rounds a float.
TruncDiv(a, b) == IF a >= 0 THEN a \div b ELSE -((-a) \div b)

\* np.frombuffer(audio_data, dtype=np.int16) raises ValueError when the buffer
\* size is not a multiple of the element size.
FrombufferRaises(bytes) == Len(bytes) % 2 # 0

\* np.frombuffer on a buffer of whole samples: little-endian two's complement.
Frombuffer(bytes) ==
    [k \in 1..(Len(bytes) \div 2) |->
        LET u == bytes[2 * k - 1] + 256 * bytes[2 * k]
        IN  IF u > MaxSample THEN u - 65536 ELSE u]

\* Variant: the two rates are taken the other way round.
ResampleLen_Swapped(n, up, down) == (n * down) \div up

\* resample_poly's output length: n*up // down + bool(n*up % down), up and down
\* reduced by their gcd.
ResampleLen(n, up, down) ==
    LET g == Gcd(up, down)
        u == up \div g
        d == down \div g
    IN  (n * u) \div d + (IF (n * u) % d # 0 THEN 1 ELSE 0)

\* The low-pass kernel of resample_poly, cut to seven taps in sixteenths
\* (offsets -3..3; the taps sum to 16, the gain at zero frequency is one).
Taps == <<-1, 0, 5, 8, 5, 0, -1>>
TapScale == 16
HalfLen == 3

\* resample_poly(float_data, 24000, 48000): zero-padded polyphase filtering,
\* one output for every second input.  Samples are kept as multiples of 1/32768,
\* which the division and the multiplication by 32768.0 leave exact.
ResamplePoly(x, up, down) ==
    LET g == Gcd(up, down)
        d == down \div g
        at(i) == IF i \in DOMAIN x THEN x[i] ELSE 0
    IN  [k \in 1..ResampleLen(Len(x), up, down) |->
            LET c == d * (k - 1) + 1
                sum[j \in 0..(2 * HalfLen + 1)] ==
                    IF j = 0 THEN 0
                    ELSE sum[j - 1] + Taps[j] * at(c + HalfLen + 1 - j)
            IN  TruncDiv(sum[2 * HalfLen + 1], TapScale)]

\* .clip(-32768, 32767)
Clip(v) == IF v < MinSample THEN MinSample ELSE IF v > MaxSample THEN MaxSample ELSE v

\* ndarray.tobytes() of int16 samples: two bytes each, low byte first.
RECURSIVE ToBytes(_)
ToBytes(samples) ==
    IF samples = <<>> THEN <<>>
    ELSE LET u == IF Head(samples) < 0 THEN Head(samples) + 65536 ELSE Head(samples)
         IN  <<u % 256, u \div 256>> \o ToBytes(Tail(samples))

\* AudioProcessor.process_audio_chunk on a buffer of whole samples
process_audio_chunk(bytes) ==
    LET pcm_data == Frombuffer(bytes)
        resampled_data == ResamplePoly(pcm_data, target_sample_rate, source_sample_rate)
    IN  ToBytes([k \in DOMAIN resampled_data |-> Clip(resampled_data[k])])

\* A session is sent frames with the bytes audio_data before any start_recording.
InitAudio ==
    /\ pc = "recv"
    /\ client = NoClient
    /\ upstream = [c \in Clients |-> "absent"]
    /\ openai_ready = FALSE
    /\ recording_stopped = FALSE
    /\ all_audio_sent = TRUE
    /\ pending_audio_operations = 0
    /\ pending_audio_chunks = <<>>
    /\ complete_transcript = <<>>
    /\ NOTION_AUTO_CREATE = TRUE
    /\ outbox = <<Status("idle")>>
    /\ upstreamLog = <<>>
    /\ inbound = <<>>
    /\ sendFailures = {}
    /\ handoffs = <<>>
    /\ turn = 0
    /\ sinceStart = <<>>
    /\ lastConnect = "none"
    /\ logAtFail = 0
    /\ nEvents = 0
    /\ closing = NoClient
    /\ peerGone = FALSE
    /\ timedOut = FALSE
    /\ peer = PeerInit
    /\ lastEvent = NoEvent
    /\ audio_data \in AudioInputs
    /\ processed_audio = <<>>
    /\ text = <<>>
    /\ total_words = NotCounted
    /\ audio_send_lock = FALSE
    /\ monitor = MonitorInit

\* A binary frame is read while the readiness gate is closed (lines 326-330,
\* 424-435): process_audio_chunk runs first; its result is buffered, or its
\* exception is caught by `except Exception`, which breaks out of the loop.
ReceiveBytes ==
    /\ pc = "recv"
    /\ GateClosed(openai_ready)
    /\ Len(inbound) < MaxPending
    /\ inbound' = Append(inbound, AudioMsg(Len(audio_data)))
    /\ IF FrombufferRaises(audio_data)
       THEN /\ pc' = "exited"
            /\ upstreamLog' = CleanupLog(upstreamLog)
            /\ upstream' = CleanupUpstream(upstream, TRUE)
            /\ UNCHANGED <<processed_audio, pending_audio_chunks>>
       ELSE /\ processed_audio' = Append(processed_audio, process_audio_chunk(audio_data))
            /\ pending_audio_chunks' =
                   Append(pending_audio_chunks, process_audio_chunk(audio_data))
            /\ UNCHANGED <<pc, upstreamLog, upstream>>
    /\ UNCHANGED <<client, openai_ready, recording_stopped, all_audio_sent,
                   pending_audio_operations, complete_transcript, NOTION_AUTO_CREATE,
                   outbox, sendFailures, handoffs, turn, sinceStart, lastConnect,
                   logAtFail, nEvents, closing, peerGone, timedOut, peer, lastEvent,
                   audio_data, text, total_words, audio_send_lock, monitor>>

NextAudio == ReceiveBytes

SpecAudio == InitAudio /\ [][NextAudio]_vars

\* ---------------------------------------------------------------- count_words
\* Characters of the five kinds count_words tells apart or treats alike: a
\* letter, a digit, a blank, a punctuation mark and a character of U+4E00..U+9FFF.
Chars == {"a", "1", " ", "!", "U+4E2D"}

\* Every text of up to MaxInbound characters.
Texts == UNION {[1..n -> Chars] : n \in 0..MaxInbound}

\* [\u4e00-\u9fff]
IsChinese(ch) == ch = "U+4E2D"

\* Variant: \w matches letters only.
IsWordChar_Letters(ch) == ch \in {"a", "U+4E2D"}

\* \w on str: letters, digits and the underscore, the letters of any script included.
IsWordChar(ch) == ch \in {"a", "1", "U+4E2D"}

\* re.findall(r'[\u4e00-\u9fff]', text)
RECURSIVE FindallChinese(_)
FindallChinese(s) ==
    IF s = <<>> THEN <<>>
    ELSE (IF IsChinese(Head(s)) THEN <<Head(s)>> ELSE <<>>) \o FindallChinese(Tail(s))

\* re.sub(r'[\u4e00-\u9fff]', '', text)
RECURSIVE SubChinese(_)
SubChinese(s) ==
    IF s = <<>> THEN <<>>
    ELSE (IF IsChinese(Head(s)) THEN <<>> ELSE <<Head(s)>>) \o SubChinese(Tail(s))

\* \b before position i (1..Len(s)+1): exactly one side is a word character.
WordBoundary(s, i) ==
    LET before == i - 1 \in DOMAIN s /\ IsWordChar(s[i - 1])
        after == i \in DOMAIN s /\ IsWordChar(s[i])
    IN  before # after

\* The ends e of a match of \b\w+\b that starts at i: i..e are word characters
\* and a boundary follows e.
MatchEnds(s, i) ==
    {e \in i..Len(s) : /\ \A k \in i..e : IsWordChar(s[k])
                       /\ WordBoundary(s, e + 1)}

\* re.findall(r'\b\w+\b', s) from position i on: the leftmost match, the longest
\* one there (\w+ is greedy), then the scan goes on behind it.
RECURSIVE FindallWords(_, _)
FindallWords(s, i) ==
    IF i > Len(s) THEN <<>>
    ELSE IF WordBoundary(s, i) /\ MatchEnds(s, i) # {}
         THEN LET e == CHOOSE m \in MatchEnds(s, i) : \A n \in MatchEnds(s, i) : n <= m
              IN  <<SubSeq(s, i, e)>> \o FindallWords(s, e + 1)
         ELSE FindallWords(s, i + 1)

\* NotionService.count_words (lines 312-330)
count_words(t) ==
    IF Strip(t) = <<>> THEN 0
    ELSE LET chinese_count == Len(FindallChinese(t))
             english_text == SubChinese(t)
             english_count == Len(FindallWords(english_text, 1))
         IN  chinese_count + english_count

InitWords ==
    /\ pc = "recv"
    /\ client = NoClient
    /\ upstream = [c \in Clients |-> "absent"]
    /\ openai_ready = FALSE
    /\ recording_stopped = FALSE
    /\ all_audio_sent = TRUE
    /\ pending_audio_operations = 0
    /\ pending_audio_chunks = <<>>
    /\ complete_transcript = <<>>
    /\ NOTION_AUTO_CREATE = TRUE
    /\ outbox = <<Status("idle")>>
    /\ upstreamLog = <<>>
    /\ inbound = <<>>
    /\ sendFailures = {}
    /\ handoffs = <<>>
    /\ turn = 0
    /\ sinceStart = <<>>
    /\ lastConnect = "none"
    /\ logAtFail = 0
    /\ nEvents = 0
    /\ closing = NoClient
    /\ peerGone = FALSE
    /\ timedOut = FALSE
    /\ peer = PeerInit
    /\ lastEvent = NoEvent
    /\ audio_data = <<>>
    /\ processed_audio = <<>>
    /\ text \in Texts
    /\ total_words = NotCounted
    /\ audio_send_lock = FALSE
    /\ monitor = MonitorInit

\* count_words is called on text and returns.
CountWords ==
    /\ total_words = NotCounted
    /\ total_words' = count_words(text)
    /\ UNCHANGED <<pc, client, upstream, openai_ready, recording_stopped, all_audio_sent,
                   pending_audio_operations, pending_audio_chunks, complete_transcript,
                   NOTION_AUTO_CREATE, outbox, upstreamLog, inbound, sendFailures,
                   handoffs, turn, sinceStart, lastConnect, logAtFail, nEvents, closing,
                   peerGone, timedOut, peer, lastEvent, audio_data, processed_audio,
                   text, audio_send_lock, monitor>>

NextWords == CountWords

SpecWords == InitWords /\ [][NextWords]_vars

\* ---------------------------------------------------------------- audio_send_lock
\* The forward branch with its two `async with audio_send_lock` blocks taken
\* apart: the lock is acquired, the block runs and releases it, the send is
\* awaited, and the finally block acquires the lock again.

\* A binary frame is read with the gate open and a client held (lines 326-333).
ForwardAcquire ==
    /\ pc = "recv"
    /\ ~peerGone
    /\ Len(inbound) < MaxInbound
    /\ ~GateClosed(openai_ready)
    /\ client # NoClient
    /\ ~audio_send_lock
    /\ inbound' = Append(inbound, AudioMsg(nFrames + 1))
    /\ audio_send_lock' = TRUE
    /\ pc' = "take"
    /\ UNCHANGED <<client, upstream, openai_ready, recording_stopped, all_audio_sent,
                   pending_audio_operations, pending_audio_chunks, complete_transcript,
                   NOTION_AUTO_CREATE, outbox, upstreamLog, sendFailures, handoffs, turn,
                   sinceStart, lastConnect, logAtFail, nEvents, closing,
                   peerGone, timedOut, peer, lastEvent, audio_data, processed_audio,
                   text, total_words, monitor>>

\* The first block (lines 334-336) and the call of send_audio (line 339).
ForwardTake ==
    /\ pc = "take"
    /\ audio_send_lock
    /\ LET slot == TakeSlot(pending_audio_operations, all_audio_sent)
       IN  /\ pending_audio_operations' = slot.pending
           /\ all_audio_sent' = slot.sent
    /\ audio_send_lock' = FALSE
    /\ upstreamLog' = Append(upstreamLog, Call("sendAudio", client, nFrames))
    /\ pc' = "sending"
    /\ UNCHANGED <<client, upstream, openai_ready, recording_stopped,
                   pending_audio_chunks, complete_transcript,
                   NOTION_AUTO_CREATE, outbox, inbound, sendFailures, handoffs, turn,
                   sinceStart, lastConnect, logAtFail, nEvents, closing,
                   peerGone, timedOut, peer, lastEvent, audio_data, processed_audio,
                   text, total_words, monitor>>

\* send_audio returns or raises (lines 339-346): the status frame on success,
\* then the finally block acquires the lock.
ForwardSendReturn(ok) ==
    /\ pc = "sending"
    /\ ~audio_send_lock
    /\ audio_send_lock' = TRUE
    /\ IF ok
       THEN /\ outbox' = Append(outbox, Status("connected"))
            /\ pc' = "release"
            /\ UNCHANGED sendFailures
       ELSE /\ sendFailures' = sendFailures \cup {LastSent(upstreamLog)}
            /\ pc' = "release_failed"
            /\ UNCHANGED outbox
    /\ UNCHANGED <<client, upstream, openai_ready, recording_stopped, all_audio_sent,
                   pending_audio_operations, pending_audio_chunks, complete_transcript,
                   NOTION_AUTO_CREATE, upstreamLog, inbound, handoffs, turn,
                   sinceStart, lastConnect, logAtFail, nEvents, closing,
                   peerGone, timedOut, peer, lastEvent, audio_data, processed_audio,
                   text, total_words, monitor>>

\* The block of the finally (lines 347-350); after a failed send the exception
\* goes on to `except Exception` and the loop's finally (424-435).
ForwardRelease(closeOk) ==
    /\ pc \in {"release", "release_failed"}
    /\ audio_send_lock
    /\ LET slot == ReleaseSlot(pending_audio_operations, all_audio_sent)
       IN  /\ pending_audio_operations' = slot.pending
           /\ all_audio_sent' = slot.sent
    /\ audio_send_lock' = FALSE
    /\ IF pc = "release"
       THEN /\ pc' = "recv"
            /\ UNCHANGED <<upstreamLog, upstream>>
       ELSE /\ upstreamLog' = CleanupLog(upstreamLog)
            /\ upstream' = CleanupUpstream(upstream, closeOk)
            /\ pc' = "exited"
    /\ UNCHANGED <<client, openai_ready, recording_stopped,
                   pending_audio_chunks, complete_transcript,
                   NOTION_AUTO_CREATE, outbox, inbound, sendFailures, handoffs, turn,
                   sinceStart, lastConnect, logAtFail, nEvents, closing,
                   peerGone, timedOut, peer, lastEvent, audio_data, processed_audio,
                   text, total_words, monitor>>

\* A binary frame read with the gate closed: buffered, no lock involved.
BufferAudio == GateClosed(openai_ready) /\ ReceiveAudio

\* Every other step of the session; none of them takes the lock, and none can
\* run between an acquire and the end of its block, which holds no await.
UnlockedStep ==
    /\ ~audio_send_lock
    /\ \/ BufferAudio
       \/ StartRecording
       \/ \E ok \in BOOLEAN : ConnectReturn(ok)
       \/ StopRecording
       \/ \E ok \in BOOLEAN, closeOk \in BOOLEAN : CommitAudio(ok, closeOk)
       \/ \E ok \in BOOLEAN, closeOk \in BOOLEAN : StartResponse(ok, closeOk)
       \/ AwaitDone
       \/ \E closeOk \in BOOLEAN : Disconnect(closeOk)
       \/ \E c \in Clients, d \in DeltaTexts : HandleTextDelta(c, d)
       \/ \E c \in Clients : HandleResponseDone(c)
       \/ \E closeOk \in BOOLEAN : CloseReturn(closeOk)

NextLock ==
    \/ ForwardAcquire
    \/ ForwardTake
    \/ \E ok \in BOOLEAN : ForwardSendReturn(ok)
    \/ \E closeOk \in BOOLEAN : ForwardRelease(closeOk)
    \/ UnlockedStep

SpecLock == Init /\ [][NextLock]_vars

\* ---------------------------------------------------------------- disconnect
\* The client goes away while the inbound loop is suspended somewhere else than
\* in receive(): the disconnect waits in the connection's receive queue, and
\* client_state changes only when receive() returns it.  A frame sent meanwhile
\* is taken as written to the socket.
PeerDisconnects ==
    /\ pc \notin {"recv", "exited"}
    /\ ~peerGone
    /\ Len(inbound) < MaxInbound
    /\ peerGone' = TRUE
    /\ UNCHANGED <<pc, client, upstream, openai_ready, recording_stopped, all_audio_sent,
                   pending_audio_operations, pending_audio_chunks, complete_transcript,
                   NOTION_AUTO_CREATE, outbox, upstreamLog, inbound, sendFailures,
                   handoffs, turn, sinceStart, lastConnect, logAtFail, nEvents, closing,
                   timedOut>>
    /\ UNCHANGED <<peer, lastEvent, audio_data, processed_audio, text, total_words,
                   audio_send_lock, monitor>>

\* The loop is back in receive(), which returns the waiting disconnect; the next
\* iteration clears openai_ready and breaks (lines 317-324, 428-435).
DetectDisconnect(closeOk) ==
    /\ pc = "recv"
    /\ peerGone
    /\ inbound' = Append(inbound, Command("disconnect"))
    /\ openai_ready' = FALSE
    /\ upstreamLog' = CleanupLog(upstreamLog)
    /\ upstream' = CleanupUpstream(upstream, closeOk)
    /\ pc' = "exited"
    /\ UNCHANGED <<client, recording_stopped, all_audio_sent, pending_audio_operations,
                   pending_audio_chunks, complete_transcript, NOTION_AUTO_CREATE, outbox,
                   sendFailures, handoffs, turn, sinceStart, lastConnect, logAtFail,
                   nEvents, closing, peerGone, timedOut>>
    /\ UNCHANGED <<peer, lastEvent, audio_data, processed_audio, text, total_words,
                   audio_send_lock, monitor>>

NextLifecycle ==
    \/ Next
    \/ PeerDisconnects
    \/ \E closeOk \in BOOLEAN : DetectDisconnect(closeOk)

\* What the inbound loop does on its own once the call it awaits returns: the
\* event loop runs every task that is ready, and a call on the upstream client
\* returns or raises.  Whether and when the client sends a message or the
\* upstream delivers an event is not in the program's hands.
LoopStep ==
    \/ \E ok \in BOOLEAN, closeOk \in BOOLEAN : SendAudioReturn(ok, closeOk)
    \/ \E ok \in BOOLEAN : ConnectReturn(ok)
    \/ \E ok \in BOOLEAN, closeOk \in BOOLEAN : CommitAudio(ok, closeOk)
    \/ \E ok \in BOOLEAN, closeOk \in BOOLEAN : StartResponse(ok, closeOk)
    \/ AwaitDone
    \/ \E closeOk \in BOOLEAN : DetectDisconnect(closeOk)

\* The same for the task that runs handle_response_done.
HandlerStep == \E closeOk \in BOOLEAN : CloseReturn(closeOk)

SpecLifecycle ==
    Init /\ [][NextLifecycle]_vars /\ WF_vars(LoopStep) /\ WF_vars(HandlerStep)


\* ---------------------------------------------------------------- auto-create setting
\* The session under either value of NOTION_AUTO_CREATE (line 74: the
\* environment variable, compared with "true").
InitSetting ==
    /\ pc = "recv"
    /\ client = NoClient
    /\ upstream = [c \in Clients |-> "absent"]
    /\ openai_ready = FALSE
    /\ recording_stopped = FALSE
    /\ all_audio_sent = TRUE
    /\ pending_audio_operations = 0
    /\ pending_audio_chunks = <<>>
    /\ complete_transcript = <<>>
    /\ NOTION_AUTO_CREATE \in BOOLEAN
    /\ outbox = <<Status("idle")>>
    /\ upstreamLog = <<>>
    /\ inbound = <<>>
    /\ sendFailures = {}
    /\ handoffs = <<>>
    /\ turn = 0
    /\ sinceStart = <<>>
    /\ lastConnect = "none"
    /\ logAtFail = 0
    /\ nEvents = 0
    /\ closing = NoClient
    /\ peerGone = FALSE
    /\ timedOut = FALSE
    /\ peer = PeerInit
    /\ lastEvent = NoEvent
    /\ audio_data = <<>>
    /\ processed_audio = <<>>
    /\ text = <<>>
    /\ total_words = NotCounted
    /\ audio_send_lock = FALSE
    /\ monitor = MonitorInit

SpecSetting == InitSetting /\ [][Next]_vars

\* ---------------------------------------------------------------- hand-off task
\* create_notion_note_from_transcript (lines 474-497) runs as a task of the same
\* event loop.  It awaits content_analyzer.analyze_content and then
\* notion_service.create_stt_note, which, when the service is enabled, calls
\* self.client.pages.create(...) without await and subscripts the result
\* (notion_service.py, lines 171-182): the request is made inside that one
\* coroutine step, and until it returns the event loop runs no other task.
LoopHeld == \E i \in DOMAIN handoffs : handoffs[i].st = "posting"

HandoffRunning == \E i \in DOMAIN handoffs : handoffs[i].st \in {"analyzing", "posting"}

HandoffMove(i, from, to) ==
    /\ i \in DOMAIN handoffs
    /\ handoffs[i].st = from
    /\ handoffs' = [handoffs EXCEPT ![i].st = to]
    /\ UNCHANGED <<pc, client, upstream, openai_ready, recording_stopped, all_audio_sent,
                   pending_audio_operations, pending_audio_chunks, complete_transcript,
                   NOTION_AUTO_CREATE, outbox, upstreamLog, inbound, sendFailures, turn,
                   sinceStart, lastConnect, logAtFail, nEvents, closing, peerGone,
                   timedOut>>
    /\ UNCHANGED <<peer, lastEvent, audio_data, processed_audio, text, total_words,
                   audio_send_lock, monitor>>

\* The task starts and suspends in `await content_analyzer.analyze_content(...)`.
HandoffAnalyze(i) == ~LoopHeld /\ HandoffMove(i, "created", "analyzing")

\* The analysis is back; create_stt_note returns None at once when the service
\* is not enabled (notion_service.py, lines 39-41).
HandoffSkip(i) == ~LoopHeld /\ HandoffMove(i, "analyzing", "done")

\* The service is enabled: create_stt_note enters self.client.pages.create.
HandoffPost(i) == ~LoopHeld /\ HandoffMove(i, "analyzing", "posting")

\* pages.create returns or raises; an exception is caught and logged in
\* create_stt_note, and anything else in create_notion_note_from_transcript.
HandoffReturn(i, ok) ==
    LoopHeld /\ HandoffMove(i, "posting", IF ok THEN "done" ELSE "failed")

\* A step of the relay: the event loop runs it when no step holds the loop.
RelayStep == ~LoopHeld /\ Next

NextHandoff ==
    \/ RelayStep
    \/ \E i \in 1..MaxEvents : HandoffAnalyze(i)
    \/ \E i \in 1..MaxEvents : HandoffSkip(i)
    \/ \E i \in 1..MaxEvents : HandoffPost(i)
    \/ \E i \in 1..MaxEvents, ok \in BOOLEAN : HandoffReturn(i, ok)

SpecHandoff == Init /\ [][NextHandoff]_vars

\* ---------------------------------------------------------------- stop handler alone
\* The drain step of the stop handler as a function of the accounting it finds:
\* the session starts with K sends outstanding (K = 0 is the state after
\* construction) and the event consistent with K, and the inbound loop runs on
\* it.  The running session itself never reads a stop with K > 0.
InitDrain ==
    /\ pc = "recv"
    /\ client = NoClient
    /\ upstream = [c \in Clients |-> "absent"]
    /\ openai_ready = FALSE
    /\ recording_stopped = FALSE
    /\ pending_audio_operations \in 0..MaxPending
    /\ all_audio_sent = (pending_audio_operations = 0)
    /\ pending_audio_chunks = <<>>
    /\ complete_transcript = <<>>
    /\ NOTION_AUTO_CREATE = TRUE
    /\ outbox = <<Status("idle")>>
    /\ upstreamLog = <<>>
    /\ inbound = <<>>
    /\ sendFailures = {}
    /\ handoffs = <<>>
    /\ turn = 0
    /\ sinceStart = <<>>
    /\ lastConnect = "none"
    /\ logAtFail = 0
    /\ nEvents = 0
    /\ closing = NoClient
    /\ peerGone = FALSE
    /\ timedOut = FALSE
    /\ peer = PeerInit
    /\ lastEvent = NoEvent
    /\ audio_data = <<>>
    /\ processed_audio = <<>>
    /\ text = <<>>
    /\ total_words = NotCounted
    /\ audio_send_lock = FALSE
    /\ monitor = MonitorInit

NextDrain ==
    \/ ReceiveAudio
    \/ \E ok \in BOOLEAN, closeOk \in BOOLEAN : SendAudioReturn(ok, closeOk)
    \/ StartRecording
    \/ \E ok \in BOOLEAN : ConnectReturn(ok)
    \/ StopRecording
    \/ \E ok \in BOOLEAN, closeOk \in BOOLEAN : CommitAudio(ok, closeOk)
    \/ \E ok \in BOOLEAN, closeOk \in BOOLEAN : StartResponse(ok, closeOk)

SpecDrain == InitDrain /\ [][NextDrain]_vars

\* ---------------------------------------------------------------- page monitor
\* notion_service.get_database_pages (lines 224-254): the pages of the database,
\* latest edit first; the empty list when the query raises.
RECURSIVE QueryPages(_, _)
QueryPages(db, ids) ==
    IF ids = {} THEN <<>>
    ELSE LET p == CHOOSE q \in ids : \A r \in ids : db[q] >= db[r]
         IN  <<[page_id |-> p, last_edited_time |-> db[p]]>>
                 \o QueryPages(db, ids \ {p})

get_database_pages(db, ok) ==
    IF ok THEN QueryPages(db, {p \in PageIds : db[p] # NoTime}) ELSE <<>>

\* StateManager.get_page_last_edited_time (lines 46-48)
get_page_last_edited_time(states, page_id) == states[page_id]

\* Variant: a detected change is not recorded.
update_page_state_Skip(states, page_id, t) == states

\* StateManager.update_page_state (lines 50-53)
update_page_state(states, page_id, t) == [states EXCEPT ![page_id] = t]

\* Variant: a page never seen before does not count as changed.
has_page_changed_SeenOnly(states, page_id, t) ==
    LET stored_time == get_page_last_edited_time(states, page_id)
    IN  stored_time # NoTime /\ stored_time # t

\* StateManager.has_page_changed (lines 54-68)
has_page_changed(states, page_id, t) ==
    LET stored_time == get_page_last_edited_time(states, page_id)
    IN  IF stored_time = NoTime THEN TRUE ELSE stored_time # t

\* StateManager.get_changed_pages (lines 70-83): the ids found changed, and
\* page_states as the loop leaves it.
RECURSIVE get_changed_pages(_, _)
get_changed_pages(states, current_pages) ==
    IF current_pages = <<>> THEN [changed |-> {}, states |-> states]
    ELSE LET page == Head(current_pages)
             hit == has_page_changed(states, page.page_id, page.last_edited_time)
             next == IF hit
                     THEN update_page_state(states, page.page_id, page.last_edited_time)
                     ELSE states
             rest == get_changed_pages(next, Tail(current_pages))
         IN  [changed |-> (IF hit THEN {page.page_id} ELSE {}) \cup rest.changed,
              states |-> rest.states]

\* The relay session takes no part in the monitor's steps.
session ==
    <<pc, client, upstream, openai_ready, recording_stopped, all_audio_sent,
      pending_audio_operations, pending_audio_chunks, complete_transcript,
      NOTION_AUTO_CREATE, outbox, upstreamLog, inbound, sendFailures, handoffs, turn,
      sinceStart, lastConnect, logAtFail, nEvents, closing, peerGone, timedOut, peer,
      lastEvent, audio_data, processed_audio, text, total_words, audio_send_lock>>

\* A check is between its first and its last statement.
InProgress(c) == monitor.check[c].pc \in {"sleep", "save"}

\* _monitor_pages from its first statement to its first suspension (lines
\* 79-119): the counter, the query, get_changed_pages, and, for the first of
\* the changed pages, the word-count update and the start of the 0.5 s sleep.
\* get_database_pages and calculate_and_update_word_count are coroutines
\* around synchronous Notion calls, so nothing else runs before the sleep.
\* Without pages the check returns; without changes it goes on to save_state.
BeginCheck(m, c, queryOk, first, updateOk) ==
    LET pages == get_database_pages(m.database, queryOk)
        got == get_changed_pages(m.page_states, pages)
        counted == [m EXCEPT !.total_checks = @ + 1]
    IN  IF pages = <<>>
        THEN [counted EXCEPT !.check[c] = [IdleCheck EXCEPT !.pc = "done"]]
        ELSE [counted EXCEPT
                 !.page_states = got.states,
                 !.check[c] =
                     [pc |-> IF got.changed = {} THEN "save" ELSE "sleep",
                      found |-> got.changed,
                      todo |-> got.changed \ {first},
                      updated |-> IF got.changed # {} /\ updateOk THEN 1 ELSE 0]]

\* The page the loop at line 104 takes first: any of the changed ones (the
\* loop runs over a set), or none.
FirstOf(m, queryOk) ==
    LET got == get_changed_pages(m.page_states, get_database_pages(m.database, queryOk))
    IN  IF got.changed = {} THEN {"none"} ELSE got.changed

InitMonitor ==
    /\ pc = "recv"
    /\ client = NoClient
    /\ upstream = [c \in Clients |-> "absent"]
    /\ openai_ready = FALSE
    /\ recording_stopped = FALSE
    /\ all_audio_sent = TRUE
    /\ pending_audio_operations = 0
    /\ pending_audio_chunks = <<>>
    /\ complete_transcript = <<>>
    /\ NOTION_AUTO_CREATE = TRUE
    /\ outbox = <<Status("idle")>>
    /\ upstreamLog = <<>>
    /\ inbound = <<>>
    /\ sendFailures = {}
    /\ handoffs = <<>>
    /\ turn = 0
    /\ sinceStart = <<>>
    /\ lastConnect = "none"
    /\ logAtFail = 0
    /\ nEvents = 0
    /\ closing = NoClient
    /\ peerGone = FALSE
    /\ timedOut = FALSE
    /\ peer = PeerInit
    /\ lastEvent = NoEvent
    /\ audio_data = <<>>
    /\ processed_audio = <<>>
    /\ text = <<>>
    /\ total_words = NotCounted
    /\ audio_send_lock = FALSE
    /\ \E database \in [PageIds -> Stamps] :
           monitor = [MonitorInit EXCEPT !.database = database]

\* startup_event awaits start() (realtime_server.py 89-102), which first awaits
\* load_state (monitor.py 35, state_manager.py 17-32): page_states becomes what
\* the state file holds.
LoadState(file) ==
    /\ monitor.check["start"].pc = "idle"
    /\ monitor' = [monitor EXCEPT !.page_states = file,
                                  !.check["start"].pc = "loaded"]
    /\ UNCHANGED session

\* The rest of start() (monitor.py 37-65): check_connection, then the job is
\* scheduled, the scheduler started and the initial check run; requests are
\* served once start() has returned.  When the connection test fails nothing
\* is scheduled.
StartMonitor(connOk, queryOk, updateOk) ==
    /\ monitor.check["start"].pc = "loaded"
    /\ IF connOk
       THEN \E first \in FirstOf(monitor, queryOk) :
                LET begun == BeginCheck([monitor EXCEPT !.is_running = TRUE],
                                        "start", queryOk, first, updateOk)
                IN  monitor' = [begun EXCEPT
                                   !.serving = begun.check["start"].pc = "done"]
       ELSE monitor' = [monitor EXCEPT !.serving = TRUE,
                                       !.check["start"].pc = "done"]
    /\ UNCHANGED session

\* The interval trigger fires (monitor.py 43-50): max_instances=1 skips the run
\* while an earlier run of this job is in progress.
JobFires(queryOk, updateOk) ==
    /\ monitor.is_running
    /\ ~InProgress("job")
    /\ monitor.total_checks < MaxChecks
    /\ \E first \in FirstOf(monitor, queryOk) :
           monitor' = BeginCheck(monitor, "job", queryOk, first, updateOk)
    /\ UNCHANGED session

\* POST /api/v1/word-count/webhook without a page_id (realtime_server.py
\* 646-665, else branch): the handler calls _monitor_pages itself.
WebhookCheck(queryOk, updateOk) ==
    /\ monitor.serving
    /\ ~InProgress("webhook")
    /\ monitor.total_checks < MaxChecks
    /\ \E first \in FirstOf(monitor, queryOk) :
           monitor' = BeginCheck(monitor, "webhook", queryOk, first, updateOk)
    /\ UNCHANGED session

\* The webhook with a page_id (realtime_server.py 650-657, monitor.py 135-154):
\* manual_update_page; on success the page's state becomes the local time and
\* the state is saved.
WebhookPage(page_id, updateOk) ==
    /\ monitor.serving
    /\ IF updateOk
       THEN monitor' = [monitor EXCEPT
                           !.page_states = update_page_state(@, page_id, LocalNow)]
       ELSE UNCHANGED monitor
    /\ UNCHANGED session

\* The 0.5 s sleep of a check ends (lines 104-122): the next changed page is
\* updated and the check sleeps again, or, after the last one, save_state is
\* called and suspends in its file open.
Wake(c, updateOk) ==
    /\ monitor.check[c].pc = "sleep"
    /\ IF monitor.check[c].todo = {}
       THEN monitor' = [monitor EXCEPT !.check[c].pc = "save"]
       ELSE \E page_id \in monitor.check[c].todo :
                monitor' = [monitor EXCEPT
                               !.check[c].todo = @ \ {page_id},
                               !.check[c].updated = IF updateOk THEN @ + 1 ELSE @]
    /\ UNCHANGED session

\* save_state has written the page states, or failed to, and the check
\* returns (state_manager.py 34-44, monitor.py 97-98 and 122-129); start()
\* returns after its initial check.
SaveReturn(c) ==
    /\ monitor.check[c].pc = "save"
    /\ monitor' = [monitor EXCEPT
                      !.check[c] = [IdleCheck EXCEPT !.pc = "done"],
                      !.serving = @ \/ c = "start"]
    /\ UNCHANGED session

\* Somebody edits or creates a page in Notion: its stamp moves on.
EditPage(page_id) ==
    /\ monitor.database[page_id] < MaxTime
    /\ \E t \in Times :
           /\ t > monitor.database[page_id]
           /\ monitor' = [monitor EXCEPT !.database[page_id] = t]
    /\ UNCHANGED session

NextMonitor ==
    \/ \E file \in [PageIds -> Stamps] : LoadState(file)
    \/ \E connOk \in BOOLEAN, queryOk \in BOOLEAN, updateOk \in BOOLEAN :
           StartMonitor(connOk, queryOk, updateOk)
    \/ \E queryOk \in BOOLEAN, updateOk \in BOOLEAN : JobFires(queryOk, updateOk)
    \/ \E queryOk \in BOOLEAN, updateOk \in BOOLEAN : WebhookCheck(queryOk, updateOk)
    \/ \E page_id \in PageIds, updateOk \in BOOLEAN : WebhookPage(page_id, updateOk)
    \/ \E c \in Slots, updateOk \in BOOLEAN : Wake(c, updateOk)
    \/ \E c \in Slots : SaveReturn(c)
    \/ \E page_id \in PageIds : EditPage(page_id)

SpecMonitor == InitMonitor /\ [][NextMonitor]_vars

\* ---------------------------------------------------------------- properties
\* The frames passed to send_audio, in call order.
RECURSIVE SentFrames(_)
SentFrames(log) ==
    IF log = <<>> THEN <<>>
    ELSE IF Head(log).op = "sendAudio" THEN <<Head(log).f>> \o SentFrames(Tail(log))
    ELSE SentFrames(Tail(log))

\* The audio, commit and response calls made on client c, in call order.
RECURSIVE Traffic(_, _)
Traffic(log, c) ==
    IF log = <<>> THEN <<>>
    ELSE IF Head(log).c = c /\ Head(log).op \in {"sendAudio", "commit", "response"}
    THEN <<Head(log)>> \o Traffic(Tail(log), c)
    ELSE Traffic(Tail(log), c)

Range(s) == {s[i] : i \in DOMAIN s}

\* C1: when a start_recording succeeds and the readiness gate opens, every frame
\* buffered while the gate was closed is sent upstream, in arrival order, by that
\* same step: the sent frames grow by exactly the backlog.
C1_BacklogFlushedOnOpen ==
    [][(~openai_ready /\ openai_ready')
        => SentFrames(upstreamLog') = SentFrames(upstreamLog) \o pending_audio_chunks]_vars

\* A commit call is appended to the upstream log by this step.
CommitIssued ==
    /\ Len(upstreamLog') > Len(upstreamLog)
    /\ \E i \in (Len(upstreamLog) + 1)..Len(upstreamLog') : upstreamLog'[i].op = "commit"

\* C2: the upstream commit is issued only when inFlight is 0 and the drain gate is
\* set, with no send_audio call still awaited.
C2_CommitOnlyWhenDrained ==
    [][CommitIssued => (/\ pending_audio_operations = 0
                        /\ all_audio_sent
                        /\ pc # "sending")]_vars

\* C2 witness: a commit was issued on a client after a frame was sent on it.
C2_Witness ==
    \E i, j \in DOMAIN upstreamLog :
        /\ i < j
        /\ upstreamLog[i].op = "sendAudio"
        /\ upstreamLog[j].op = "commit"
        /\ upstreamLog[i].c = upstreamLog[j].c

\* C3: the transcript equals the concatenation of the text deltas received since
\* the most recent start_recording.
C3_TranscriptSinceStart == complete_transcript = sinceStart

\* C4: within one recording turn the hand-off to the notifier is triggered at most
\* once, however often response.done is delivered.
C4_OneHandoffPerTurn ==
    \A t \in 0..MaxInbound :
        Cardinality({i \in DOMAIN handoffs : handoffs[i].turn = t}) <= 1

\* C5: a session has at most one live (connected, not closed) upstream client.
C5_AtMostOneLiveClient == Cardinality({c \in Clients : Live(c)}) <= 1

\* C6: when a send_audio call fails, its slot is released and the inbound loop goes
\* on to read the next message.
C6_SendFailureContinues ==
    [][(pc = "sending" /\ sendFailures' # sendFailures)
        => (/\ pending_audio_operations' = pending_audio_operations - 1
            /\ (pending_audio_operations' = 0 => all_audio_sent')
            /\ pc' = "recv")]_vars

\* C7: after a failed upstream connect, and until a later start succeeds, the client
\* has been sent an error frame, the readiness gate is closed, the session holds no
\* upstream client and no audio, commit or response call is issued.
C7_IdleAfterConnectFailure ==
    lastConnect = "failed" =>
        /\ \E i \in DOMAIN outbox : outbox[i].type = "error"
        /\ ~openai_ready
        /\ client = NoClient
        /\ \A i \in DOMAIN upstreamLog :
               i > logAtFail => upstreamLog[i].op \notin {"sendAudio", "commit", "response"}

\* The session's whole input so far is one turn: start_recording, k frames,
\* stop_recording.
IsScenario(msgs) ==
    /\ Len(msgs) >= 2
    /\ msgs[1].type = "start_recording"
    /\ msgs[Len(msgs)].type = "stop_recording"
    /\ \A i \in 2..(Len(msgs) - 1) : msgs[i].type = "audio"

\* C8: in a turn start, k frames, stop whose connect and sends succeed, the upstream
\* sees the k frames in order, then one commit, then one response request and
\* nothing between them; once the response is done and the client closed, the
\* client has been sent an "idle" status after the turn's "connecting".
C8_TurnSequence ==
    (/\ IsScenario(inbound)
     /\ lastConnect = "ok"
     /\ pc \in {"await_done", "recv"})
    => /\ Traffic(upstreamLog, 1)
            = SendCalls([i \in 1..(Len(inbound) - 2) |-> i], 1)
                \o <<Call("commit", 1, 0), Call("response", 1, 0)>>
       /\ client = NoClient =>
            \E i, j \in DOMAIN outbox :
                /\ i < j
                /\ outbox[i] = Status("connecting")
                /\ outbox[j] = Status("idle")

\* C8 witness: the turn start, frame, frame, stop has run to its end.
C8_Witness ==
    /\ IsScenario(inbound)
    /\ Len(inbound) = 4
    /\ lastConnect = "ok"
    /\ pc = "recv"
    /\ client = NoClient

\* C9: every frame received is forwarded (or being forwarded), still in the
\* backlog, or accounted for by a logged send failure.
C9_NoSilentDrop ==
    \A f \in 1..nFrames :
        \/ f \in Range(SentFrames(upstreamLog))
        \/ f \in Range(pending_audio_chunks)
        \/ f \in sendFailures

\* C10: frames are passed to send_audio in the order they arrived: a frame is never
\* sent after one that arrived later.
C10_SendsInArrivalOrder ==
    LET sent == SentFrames(upstreamLog)
    IN  \A i, j \in DOMAIN sent : i < j => sent[i] < sent[j]

\* C10 witness: two frames that arrived one after the other were both forwarded.
C10_Witness == Len(SentFrames(upstreamLog)) >= 2

\* The frames sent to the client after the latest "connecting" status, which
\* every start_recording sends first.
RECURSIVE SinceConnecting(_)
SinceConnecting(box) ==
    IF box = <<>> THEN <<>>
    ELSE IF box[Len(box)] = Status("connecting") THEN <<>>
    ELSE Append(SinceConnecting(SubSeq(box, 1, Len(box) - 1)), box[Len(box)])

\* The contents of the continuation text frames of a frame sequence, concatenated.
RECURSIVE DeltaFrames(_)
DeltaFrames(box) ==
    IF box = <<>> THEN <<>>
    ELSE (IF Head(box).type = "text" /\ ~Head(box).isNewResponse
          THEN Head(box).content ELSE <<>>) \o DeltaFrames(Tail(box))

\* C11: after the text deltas that followed the latest recording start, the client
\* has been sent their contents, in order, as continuation text frames, and the
\* transcript is the concatenation of exactly those contents.
C11_TranscriptIsDeltas ==
    /\ DeltaFrames(SinceConnecting(outbox)) = sinceStart
    /\ complete_transcript = DeltaFrames(SinceConnecting(outbox))

\* C12: a text frame that is not valid JSON is skipped: the inbound loop goes on
\* to read the next message and the session state is as it was.
C12_MalformedSkipped ==
    [][(inbound' = Append(inbound, Command("malformed")))
        => (/\ pc' = "recv"
            /\ UNCHANGED <<client, upstream, openai_ready, recording_stopped,
                           all_audio_sent, pending_audio_operations,
                           pending_audio_chunks, complete_transcript, outbox,
                           upstreamLog>>)]_vars

\* close() has been called on the client the session holds, if it holds one.
HeldClientClosed ==
    client = NoClient
    \/ \E i \in DOMAIN upstreamLog : upstreamLog[i] = Call("close", client, 0)

\* C13: once the client has disconnected, in whatever state the session is, the
\* inbound loop eventually ends and the upstream client held is closed.
C13_DisconnectEndsLoop == peerGone ~> (pc = "exited" /\ HeldClientClosed)

\* connect() returned normally on client c.
Opened(c) == upstream[c] \in {"live", "responding", "closed"}

\* The number of close() calls made on client c.
CloseCalls(c) ==
    Cardinality({i \in DOMAIN upstreamLog : upstreamLog[i] = Call("close", c, 0)})

\* The session has come to rest: the inbound loop has ended, or the turn is over
\* and no client is held; no handler is in the middle of a close.
AtRest ==
    /\ closing = NoClient
    /\ \/ pc = "exited"
       \/ pc = "recv" /\ client = NoClient

\* C14: whichever way the session came to rest (response completion, disconnect,
\* failure of the inbound loop), close() has been called exactly once on every
\* upstream client that was opened.
C14_ClosedExactlyOnce ==
    AtRest => \A c \in Clients : Opened(c) => CloseCalls(c) = 1

\* C15: once the client has disconnected and the inbound loop has ended, nothing
\* of the session is left running: the queued sender has ended too and the
\* connection handler has returned.
C15_ClosedAfterDisconnect == (peerGone /\ pc = "exited") => HandlerReturned

\* The inbound loop is reading commands and the session holds no upstream client.
Idle == pc = "recv" /\ client = NoClient /\ ~openai_ready

\* C16: when response.done has been delivered to a session whose stop handler
\* waits for it, the wait ends and the session comes back to Idle, the upstream
\* client released and the loop reading commands again (unless the connection
\* has ended meanwhile).
C16_ReturnsToIdle ==
    (pc = "await_done" /\ recording_stopped /\ closing # NoClient /\ Live(closing))
        ~> (Idle \/ pc = "exited")

\* C17: when handle_response_done, run with a connected client held, has finished,
\* the completion event is set, that client is closed and no client is held, the
\* readiness event is cleared and an "idle" status has been sent to the client.
C17_ResponseDoneReleases ==
    [][(closing # NoClient /\ Live(closing) /\ closing' = NoClient)
        => (/\ recording_stopped'
            /\ upstream'[closing] = "closed"
            /\ client' = NoClient
            /\ ~openai_ready'
            /\ outbox' = Append(outbox, Status("idle")))]_vars

\* The status of the latest status frame sent to the client.
RECURSIVE LastStatus(_)
LastStatus(box) ==
    IF box = <<>> THEN "none"
    ELSE IF box[Len(box)].type = "status" THEN box[Len(box)].status
    ELSE LastStatus(SubSeq(box, 1, Len(box) - 1))

\* C18: the "connected" status of stop_recording precedes the "idle" status of
\* the response completion: when a turn start, frames, stop has run to its end
\* (response done handled, client released, loop reading again), the last status
\* frame the client has received is "idle".
C18_IdleIsLastStatus ==
    (/\ IsScenario(inbound)
     /\ lastConnect = "ok"
     /\ pc = "recv"
     /\ closing = NoClient
     /\ client = NoClient)
    => LastStatus(outbox) = "idle"

\* A stop_recording is read by this step while a client is held.
StopHandled ==
    /\ inbound' = Append(inbound, Command("stop_recording"))
    /\ client # NoClient

\* C19: a stop_recording that finds K > 0 sends outstanding ends its bounded wait
\* with the counter forced to 0 and the drain event set, and goes on to the commit
\* (the loop does not end); no commit is issued while a send is outstanding.
C19_TimeoutThenCommit ==
    [][/\ (StopHandled /\ pending_audio_operations > 0)
            => (/\ pending_audio_operations' = 0
                /\ all_audio_sent'
                /\ timedOut'
                /\ pc' = "settle")
       /\ CommitIssued => (pending_audio_operations = 0 /\ all_audio_sent)]_vars

\* C19 witness: a stop found sends outstanding, timed out, and the commit was issued.
C19_Witness ==
    /\ timedOut
    /\ \E i \in DOMAIN upstreamLog : upstreamLog[i].op = "commit"

\* C20: a stop_recording that finds no send outstanding does not wait on the drain
\* event: its wait returns at once, without a timeout, and the commit is the next
\* thing the inbound loop does, enabled without any other event of the session.
C20_CommitWithoutWait ==
    /\ [](pc = "settle"
            => ENABLED (\E ok \in BOOLEAN, closeOk \in BOOLEAN : CommitAudio(ok, closeOk)))
    /\ [][/\ (StopHandled /\ pending_audio_operations = 0)
                => (/\ pc' = "settle"
                    /\ ~timedOut'
                    /\ pending_audio_operations' = 0
                    /\ all_audio_sent')
          /\ (pc = "settle" /\ pc' # "settle")
                => (CommitIssued \/ (client = NoClient /\ pc' = "exited"))]_vars

\* C20 witness: a stop that found nothing outstanding was followed by the commit.
C20_Witness ==
    /\ ~timedOut
    /\ pc = "committed"
    /\ inbound[Len(inbound)] = Command("stop_recording")

C22_HandoffNeverBlocks ==
    /\ []((HandoffRunning /\ ENABLED Next) => ENABLED RelayStep)
    /\ [][handoffs' # handoffs /\ Len(handoffs') = Len(handoffs)
            => UNCHANGED <<pc, client, upstream, openai_ready, recording_stopped,
                           all_audio_sent, pending_audio_operations,
                           pending_audio_chunks, complete_transcript, outbox,
                           upstreamLog>>]_vars

\* A text with at least one character that is not a blank.
NonBlank(s) == \E i \in DOMAIN s : s[i] # " "

\* C23: a hand-off is created only by a response.done, only when the transcript
\* has a non-blank character and NOTION_AUTO_CREATE is on, and it is passed a
\* non-empty text without leading or trailing blanks; a response.done that finds
\* the transcript empty or blank, or the setting off, creates none.
C23_HandoffOnlyWhenDue ==
    [][/\ Len(handoffs') > Len(handoffs)
            => (/\ recording_stopped'
                /\ NOTION_AUTO_CREATE
                /\ NonBlank(complete_transcript)
                /\ Len(handoffs') = Len(handoffs) + 1
                /\ LET passed == handoffs'[Len(handoffs')].text
                   IN  NonBlank(passed) /\ passed[1] # " " /\ passed[Len(passed)] # " ")
       /\ (nEvents' # nEvents /\ outbox' = outbox
            /\ (~NOTION_AUTO_CREATE \/ ~NonBlank(complete_transcript)))
            => handoffs' = handoffs]_vars

\* C23 witness: with the setting off, a response.done found a non-empty transcript
\* (it closed the client) and no hand-off exists.
C23_Witness ==
    /\ ~NOTION_AUTO_CREATE
    /\ complete_transcript # <<>>
    /\ recording_stopped
    /\ handoffs = <<>>

\* The variables of the first session.
ownVars ==
    <<pc, client, upstream, openai_ready, recording_stopped, all_audio_sent,
      pending_audio_operations, pending_audio_chunks, complete_transcript, outbox,
      upstreamLog, inbound, handoffs, turn, closing>>

RegisteredBefore(c, i) ==
    \E j \in 1..(i - 1) : upstreamLog[j] = Call("register", c, 0)

\* C25: the handlers are registered on a client only after its connect has
\* succeeded, and no sendAudio, commit or response call is issued on a client,
\* nor is the readiness gate open on it, before they are registered.
C25_HandlersBeforeTraffic ==
    /\ \A i \in DOMAIN upstreamLog :
           /\ upstreamLog[i].op = "register"
                => /\ \E j \in 1..(i - 1) : upstreamLog[j] = Call("connect", upstreamLog[i].c, 0)
                   /\ upstream[upstreamLog[i].c] \notin {"absent", "connecting", "failed"}
           /\ upstreamLog[i].op \in {"sendAudio", "commit", "response"}
                => RegisteredBefore(upstreamLog[i].c, i)
    /\ (openai_ready /\ client # NoClient)
           => RegisteredBefore(client, Len(upstreamLog) + 1)

\* The step is the handling of an upstream event of type t.
EventHandled(t) ==
    /\ nEvents' = nEvents + 1
    /\ lastEvent'.n = nEvents'
    /\ lastEvent'.event.type = t

\* C26: an upstream error event sends the client exactly one error frame, whose
\* content is the event's message when it has one, and changes neither the upstream
\* client nor the gates, the transcript, the backlog, the counter or the loop.
C26_ErrorForwarded ==
    [][EventHandled("error")
         => /\ Len(outbox') = Len(outbox) + 1
            /\ SubSeq(outbox', 1, Len(outbox)) = outbox
            /\ outbox'[Len(outbox')].type = "error"
            /\ lastEvent'.event.has
                 => outbox'[Len(outbox')].content = lastEvent'.event.message
            /\ UNCHANGED <<pc, client, upstream, upstreamLog, openai_ready,
                           recording_stopped, all_audio_sent, complete_transcript,
                           pending_audio_chunks, pending_audio_operations>>]_vars

\* C26 witness: an error event with a message was forwarded while a response was
\* under way, and a text delta of the same client was relayed after it.
C26_Witness ==
    /\ client # NoClient /\ upstream[client] = "responding" /\ openai_ready
    /\ \E i \in DOMAIN outbox :
          /\ outbox[i] = Error("quota exceeded")
          /\ \E j \in (i + 1)..Len(outbox) : outbox[j].type = "text"

\* s is an initial part of t.
IsPrefix(s, t) == Len(s) <= Len(t) /\ SubSeq(t, 1, Len(s)) = s

\* C27: a response.created event sends the client exactly one text frame, with
\* empty content and isNewResponse true, and leaves the transcript as it is; no
\* step other than the handling of a start_recording removes text from the transcript.
C27_CreatedKeepsTranscript ==
    [][/\ EventHandled("response.created")
            => /\ outbox' = Append(outbox, [type |-> "text", content |-> <<>>,
                                            isNewResponse |-> TRUE])
               /\ complete_transcript' = complete_transcript
       /\ (inbound' # Append(inbound, Command("start_recording")))
            => IsPrefix(complete_transcript, complete_transcript')]_vars

\* C27 witness: a response.created was handled after text had been accumulated.
C27_Witness ==
    /\ lastEvent.event.type = "response.created"
    /\ lastEvent.n = nEvents
    /\ outbox[Len(outbox)] = [type |-> "text", content |-> <<>>, isNewResponse |-> TRUE]
    /\ complete_transcript # <<>>

\* The whole samples of a buffer: a trailing odd byte dropped.
WholeSamples(bytes) == SubSeq(bytes, 1, 2 * (Len(bytes) \div 2))

\* C28: a binary frame of any length, odd lengths included, is transcoded as its
\* whole samples are, without an exception, and the inbound loop goes on reading;
\* an empty frame gives empty output.
C28_OddFrameTolerated ==
    [][(inbound' # inbound)
         => /\ pc' = "recv"
            /\ processed_audio' =
                   Append(processed_audio, process_audio_chunk(WholeSamples(audio_data)))
            /\ (audio_data = <<>> => processed_audio'[Len(processed_audio')] = <<>>)]_vars

\* The part of C28 that holds: frames of whole samples, the empty one included.
C28_WholeFramesTolerated ==
    [][(inbound' # inbound /\ ~FrombufferRaises(audio_data))
         => /\ pc' = "recv"
            /\ processed_audio' = Append(processed_audio, process_audio_chunk(audio_data))
            /\ (audio_data = <<>> => processed_audio'[Len(processed_audio')] = <<>>)]_vars

ChinesePositions(s) == {i \in DOMAIN s : s[i] = "U+4E2D"}
WithoutChinese(s) == SelectSeq(s, LAMBDA ch : ch # "U+4E2D")

\* The maximal runs of word characters of s, counted by where they begin.
MaximalRuns(s) ==
    Cardinality({i \in DOMAIN s : /\ IsWordChar(s[i])
                                  /\ (i = 1 \/ ~IsWordChar(s[i - 1]))})

SendIssued ==
    /\ Len(upstreamLog') > Len(upstreamLog)
    /\ upstreamLog'[Len(upstreamLog) + 1].op = "sendAudio"

\* C32: outside the lock the drain event is set exactly when the counter is 0;
\* a forwarded frame increments the counter and clears the event before its send,
\* and the return of the send, successful or not, decrements the counter.
C32_DrainAccounting ==
    /\ [](all_audio_sent <=> pending_audio_operations = 0)
    /\ [][/\ SendIssued
               => /\ pending_audio_operations' = pending_audio_operations + 1
                  /\ ~all_audio_sent'
          /\ (pc = "sending" /\ pc' # "sending")
               => pending_audio_operations' = pending_audio_operations - 1]_vars

\* C32 witness: a send has failed, the loop has ended, and the counter is back
\* at 0 with the event set.
C32_Witness ==
    /\ sendFailures # {}
    /\ pc = "exited"
    /\ pending_audio_operations = 0
    /\ all_audio_sent

\* C33: every step that changes the transcript, the counter or one of the three
\* events is taken with audio_send_lock held.
C33_MutationsUnderLock ==
    [][(\/ complete_transcript' # complete_transcript
        \/ pending_audio_operations' # pending_audio_operations
        \/ openai_ready' # openai_ready
        \/ all_audio_sent' # all_audio_sent
        \/ recording_stopped' # recording_stopped)
         => audio_send_lock]_vars

\* The part of C33 that holds: the counter and the drain event change only
\* with the lock held.
C33_CounterUnderLock ==
    [][(\/ pending_audio_operations' # pending_audio_operations
        \/ all_audio_sent' # all_audio_sent)
         => audio_send_lock]_vars

\* C34: when the handling of a start_recording is over, whether its connect
\* succeeded or failed, the completion event is clear.
C34_StartResetsCompletion ==
    [][(pc = "connecting" /\ pc' = "recv") => ~recording_stopped']_vars


\* C35: the count of sends in flight is always 0 or 1, it is 0 (and the
\* all-sent event set) whenever the inbound loop is about to read a message,
\* a stop_recording included, and the drain wait of a stop never times out.
C35_InFlightBounded ==
    /\ pending_audio_operations \in {0, 1}
    /\ ~timedOut
    /\ (pc = "recv" => pending_audio_operations = 0 /\ all_audio_sent)

\* A stop_recording has passed its drain wait after a frame was forwarded.
C35_Witness ==
    /\ pc = "settle"
    /\ \E i \in 1..Len(upstreamLog) : upstreamLog[i].op = "sendAudio"
    /\ ~timedOut
    /\ pending_audio_operations = 0


\* C36: no sendAudio is issued on a client after a commit has been issued on
\* that same client.
C36_NoSendAfterCommit ==
    \A i, j \in DOMAIN upstreamLog :
        (i < j /\ upstreamLog[i].c = upstreamLog[j].c /\ upstreamLog[i].op = "commit")
            => upstreamLog[j].op # "sendAudio"


\* C37: whenever the readiness event is set, the session holds a client that
\* connected, had its handlers registered and has not been closed.
C37_ReadyImpliesLiveClient ==
    openai_ready =>
        /\ client # NoClient
        /\ Live(client)
        /\ \E i \in DOMAIN upstreamLog :
              upstreamLog[i].c = client /\ upstreamLog[i].op = "register"


\* C38: a stop_recording read while no client is held changes nothing: no
\* upstream call, no frame to the browser, no wait, no change of any event,
\* counter, buffer or transcript (only the record of inbound messages grows).
C38_StopWithoutClientIsNoOp ==
    [][(/\ pc = "recv"
        /\ client = NoClient
        /\ inbound' = Append(inbound, Command("stop_recording")))
       => UNCHANGED <<pc, client, upstream, openai_ready, recording_stopped,
                      all_audio_sent, pending_audio_operations, pending_audio_chunks,
                      complete_transcript, outbox, upstreamLog, sendFailures, handoffs,
                      turn, sinceStart, lastConnect, logAtFail, nEvents, closing,
                      peerGone, timedOut, audio_send_lock>>]_vars

\* A second stop_recording was read after a completed turn had released the
\* client, and nothing was committed for it.
C38_Witness ==
    /\ inbound = <<Command("start_recording"), Command("stop_recording"),
                   Command("stop_recording")>>
    /\ pc = "recv"
    /\ client = NoClient
    /\ Cardinality({i \in DOMAIN upstreamLog : upstreamLog[i].op = "commit"}) = 1
    /\ outbox[Len(outbox)] = Status("idle")


\* The step in which check c calls get_changed_pages: the check is counted and
\* c goes from not running to running (a check that found no page returns
\* before the call).
Detects(c) ==
    /\ monitor'.total_checks = monitor.total_checks + 1
    /\ monitor.check[c].pc \notin {"sleep", "save"}
    /\ monitor'.check[c].pc \in {"sleep", "save"}

\* C31: get_changed_pages returns exactly the ids of the listed pages whose
\* stored stamp is missing or differs from the listed one; a page listed with
\* the stamp that is stored is not returned.
C31_ChangedExactly ==
    [][\A c \in Slots : Detects(c) =>
          LET pages == get_database_pages(monitor.database, TRUE)
              stored == monitor.page_states
          IN  monitor'.check[c].found =
                  {pages[i].page_id : i \in
                      {j \in DOMAIN pages :
                          \/ stored[pages[j].page_id] = NoTime
                          \/ stored[pages[j].page_id] # pages[j].last_edited_time}}]_vars

\* A check has reported one page while the other page, listed with the stamp
\* that was stored for it, was not reported.
C31_Witness ==
    \E c \in Slots, p \in PageIds, q \in PageIds :
        /\ InProgress(c)
        /\ monitor.total_checks = 1
        /\ p # q
        /\ monitor.check[c].found = {p}
        /\ monitor.database[q] # NoTime
        /\ monitor.page_states[q] = monitor.database[q]


\* C40: get_changed_pages records the stamp of a page it reports when it
\* reports it, so a second call with the same list returns nothing; the
\* word-count updates attempted after the call, failed or not, leave the
\* recorded stamps alone.
C40_SecondCallEmpty ==
    [][/\ \A c \in Slots : Detects(c) =>
             LET pages == get_database_pages(monitor.database, TRUE)
             IN  /\ \A p \in monitor'.check[c].found :
                        monitor'.page_states[p] = monitor.database[p]
                 /\ get_changed_pages(monitor'.page_states, pages).changed = {}
       /\ \A c \in Slots :
             (/\ monitor.check[c].pc = "sleep"
              /\ monitor'.check[c] # monitor.check[c]
              /\ monitor'.total_checks = monitor.total_checks)
                 => monitor'.page_states = monitor.page_states]_vars

\* A check reported both pages, the update of each was attempted and at least
\* one failed, and a second call with the same list would return nothing.
C40_Witness ==
    \E c \in Slots :
        /\ monitor.check[c].pc = "save"
        /\ monitor.check[c].found = PageIds
        /\ monitor.check[c].updated = 1
        /\ get_changed_pages(monitor.page_states,
                             get_database_pages(monitor.database, TRUE)).changed = {}


\* C39: at most one execution of _monitor_pages is in progress at any time,
\* whichever of the initial check, the interval job and the webhook began it.
C39_OneCheckAtATime ==
    Cardinality({c \in Slots : InProgress(c)}) <= 1

====
